---------------------------- MODULE Spec2Model ----------------------------
(***************************************************************************)
(* A model of data_extraction.py: the credential check done when the       *)
(* module is loaded, the fetcher get_jsonparsed_data, the three merge       *)
(* operations (merge_indicators_by_date, merge_quarterly_fundamental_data,  *)
(* and the sort-only merge_financial_growth_data /                          *)
(* merge_as_reported_financial_data) and the orchestrator main().           *)
(*                                                                          *)
(* A JSON object (a Python dict) is a function from field names to values.  *)
(* A date is a natural number: the order on numbers stands for the order    *)
(* Python puts on the date strings.  Every other value is a string, and     *)
(* None is the string "null".  A dict that keeps insertion order and is     *)
(* iterated (merged_data, the indicators mapping) carries its keys as a     *)
(* sequence.                                                                *)
(***************************************************************************)
EXTENDS Naturals, Sequences, FiniteSets

VARIABLES
    os_environ,     \* FMP_API_KEY in the process environment: Unset, "" or a key
    dotenv_file,    \* FMP_API_KEY in the .env file: Unset, "" or a key
    FMP_API_KEY,    \* the module-level credential, NotLoaded until line 12 ran
    dataset,        \* index in Datasets of the dataset main() is working on
    phase,          \* "load", "fetch", "merge", "save", "done" or "failed"
    responses,      \* the responses fetched for the current dataset, in order
    requests,       \* every endpoint a GET was issued to, in order
    result,         \* the value the current dataset's fetch or merge returned
    error,          \* the exception that ended the process, or NoError
    merged_data,    \* the accumulator built by the last merge invocation
    saved,          \* the files save_to_json has written, in order
    other,          \* rerun harness: the input of the in-between invocation
    runs,           \* rerun harness: invocations completed before this one
    first_result    \* rerun harness: what the first invocation returned

vars == <<os_environ, dotenv_file, FMP_API_KEY, dataset, phase, responses,
          requests, result, error, merged_data, saved, other, runs,
          first_result>>

---------------------------------------------------------------------------
(* Bounds of the model. *)

\* dates are drawn from 1..MaxDate
MaxDate == 2
\* an input of a merge holds at most MaxRecords records over all its categories
MaxRecords == 3
\* merge_indicators_by_date is given the first NumCategories indicators
NumCategories == 2
\* the two inputs of the rerun harness hold at most MaxRerunRecords records
MaxRerunRecords == 2

---------------------------------------------------------------------------
(* Python values. *)

Null == "null"
NoError == "none"
KeyError == "KeyError"
ValueError == "ValueError"
HTTPError == "HTTPError"
Unset == "unset"
NotLoaded == "not loaded"
NoResult == <<"no result">>

EmptyDict == <<>>

\* d.get(k)
Get(d, k) == IF k \in DOMAIN d THEN d[k] ELSE Null

\* d[k] = v
SetItem(d, k, v) == [x \in DOMAIN d \cup {k} |-> IF x = k THEN v ELSE d[x]]

\* d.update(item)
Update(d, item) ==
    [x \in DOMAIN d \cup DOMAIN item |-> IF x \in DOMAIN item THEN item[x] ELSE d[x]]

\* defaultdict(dict), empty: its keys in insertion order and the dict at each
EmptyDefaultDict == [keys |-> <<>>, at |-> <<>>]

\* merged_data = defaultdict(dict)
\* (variant: one accumulator kept across invocations)
NewAccumulator_persisting == merged_data
NewAccumulator == EmptyDefaultDict

\* merged_data[date], which inserts an empty dict when date is a new key
\* (variant: the key is appended even when present, as a list of rows would)
Touch_append(md, date) ==
    [keys |-> Append(md.keys, date),
     at |-> IF date \in DOMAIN md.at THEN md.at ELSE SetItem(md.at, date, EmptyDict)]
Touch(md, date) ==
    IF date \in DOMAIN md.at THEN md
    ELSE [keys |-> Append(md.keys, date), at |-> SetItem(md.at, date, EmptyDict)]

\* list(merged_data.values())
Values(md) == [i \in 1..Len(md.keys) |-> md.at[md.keys[i]]]

\* x['date'] raises KeyError on a record without the field
HasDate(x) == "date" \in DOMAIN x

\* list.sort(key=lambda x: x['date'], reverse=True): a stable sort, so records
\* of equal date keep their order.  Insert(sorted, x) puts x behind every
\* record whose date is not smaller.
RECURSIVE Insert(_, _)
\* (variant: a record whose date is already present is dropped)
Insert_dedup(sorted, x) ==
    IF sorted = <<>> THEN <<x>>
    ELSE IF Head(sorted)["date"] > x["date"]
         THEN <<Head(sorted)>> \o Insert(Tail(sorted), x)
         ELSE IF Head(sorted)["date"] = x["date"] THEN sorted
         ELSE <<x>> \o sorted
Insert(sorted, x) ==
    IF sorted = <<>> THEN <<x>>
    ELSE IF Head(sorted)["date"] >= x["date"]
         THEN <<Head(sorted)>> \o Insert(Tail(sorted), x)
         ELSE <<x>> \o sorted

RECURSIVE SortFrom(_, _)
SortFrom(sorted, rest) ==
    IF rest = <<>> THEN sorted
    ELSE SortFrom(Insert(sorted, Head(rest)), Tail(rest))

\* (variant: reverse=True forgotten)
SortByDateDesc_ascending(list) ==
    LET s == SortFrom(<<>>, list) IN [i \in 1..Len(s) |-> s[Len(s) + 1 - i]]
SortByDateDesc(list) == SortFrom(<<>>, list)

\* the outcome of a call: the exception raised, the value returned and the
\* accumulator it leaves behind (a call that builds none leaves merged_data)
Raised(e, md) == [error |-> e, value |-> NoResult, md |-> md]
Returned(v, md) == [error |-> NoError, value |-> v, md |-> md]

\* the sort of a fetched list: the keys are computed for every record before
\* any is moved, so one record without a date raises and leaves the list alone
SortCall(list) ==
    IF \E i \in 1..Len(list) : ~HasDate(list[i])
    THEN Raised(KeyError, merged_data)
    ELSE Returned(SortByDateDesc(list), merged_data)

---------------------------------------------------------------------------
(* merge_indicators_by_date *)

BaselineFields == {"open", "high", "low", "close", "volume"}

\* the dict literal of lines 123-130
BaselineDict(date, data_point) ==
    [f \in BaselineFields \cup {"date"} |->
        IF f = "date" THEN date ELSE Get(data_point, f)]

\* lines 122-130: the baseline is written only for a date not yet a key
\* (variant: the baseline rewritten by every data point)
InitBaseline_always(md, date, data_point) ==
    LET seen == Touch(md, date)
    IN  [keys |-> seen.keys,
         at |-> SetItem(seen.at, date, Update(seen.at[date], BaselineDict(date, data_point)))]
InitBaseline(md, date, data_point) ==
    IF date \notin DOMAIN md.at
    THEN LET seen == Touch(md, date)
         IN  [keys |-> seen.keys,
              at |-> SetItem(seen.at, date, Update(seen.at[date], BaselineDict(date, data_point)))]
    ELSE md

\* line 131: merged_data[date][indicator_name] = data_point.get(indicator_name)
\* (variant: setdefault, the first value kept)
SetIndicator_first(md, date, indicator_name, data_point) ==
    LET seen == Touch(md, date)
    IN  IF indicator_name \in DOMAIN seen.at[date] THEN seen
        ELSE [keys |-> seen.keys,
              at |-> SetItem(seen.at, date,
                             SetItem(seen.at[date], indicator_name, Get(data_point, indicator_name)))]
SetIndicator(md, date, indicator_name, data_point) ==
    LET seen == Touch(md, date)
    IN  [keys |-> seen.keys,
         at |-> SetItem(seen.at, date,
                        SetItem(seen.at[date], indicator_name, Get(data_point, indicator_name)))]

\* lines 121-131 for one data point that has a date
MergePoint(md, indicator_name, data_point) ==
    LET date == data_point["date"]
    IN  SetIndicator(InitBaseline(md, date, data_point), date, indicator_name, data_point)

\* what a record without a date does to the loop: item['date'] raises
\* (variant: the loop ends quietly on such a record)
MissingDate_skipped(st) == st
MissingDate(st) == [st EXCEPT !.error = KeyError]

\* the inner loop, lines 120-131; st is [error, md]
RECURSIVE IndicatorLoop(_, _, _)
IndicatorLoop(st, indicator_name, indicator_data) ==
    IF indicator_data = <<>> \/ st.error # NoError THEN st
    ELSE LET data_point == Head(indicator_data) IN
         IF ~HasDate(data_point) THEN MissingDate(st)
         ELSE IndicatorLoop([st EXCEPT !.md = MergePoint(@, indicator_name, data_point)],
                            indicator_name, Tail(indicator_data))

\* the outer loop, line 119; indicators is the dict as its items in order
RECURSIVE IndicatorsLoop(_, _)
IndicatorsLoop(st, indicators) ==
    IF indicators = <<>> \/ st.error # NoError THEN st
    ELSE IndicatorsLoop(IndicatorLoop(st, Head(indicators)[1], Head(indicators)[2]),
                        Tail(indicators))

merge_indicators_by_date(indicators) ==
    LET st == IndicatorsLoop([error |-> NoError, md |-> NewAccumulator], indicators)
    IN  IF st.error # NoError THEN Raised(st.error, st.md)
        ELSE Returned(SortByDateDesc(Values(st.md)), st.md)

---------------------------------------------------------------------------
(* merge_quarterly_fundamental_data, from line 201 on *)

\* line 209
\* (variant: fields already present are kept)
MergeItem_first_writer(md, item) ==
    LET date == item["date"]
        seen == Touch(md, date)
    IN  [keys |-> seen.keys, at |-> SetItem(seen.at, date, Update(item, seen.at[date]))]
MergeItem(md, item) ==
    LET date == item["date"]
        seen == Touch(md, date)
    IN  [keys |-> seen.keys, at |-> SetItem(seen.at, date, Update(seen.at[date], item))]

RECURSIVE ItemLoop(_, _)
ItemLoop(st, data) ==
    IF data = <<>> \/ st.error # NoError THEN st
    ELSE LET item == Head(data) IN
         IF ~HasDate(item) THEN MissingDate(st)
         ELSE ItemLoop([st EXCEPT !.md = MergeItem(@, item)], Tail(data))

RECURSIVE SourcesLoop(_, _)
SourcesLoop(st, sources) ==
    IF sources = <<>> \/ st.error # NoError THEN st
    ELSE SourcesLoop(ItemLoop(st, Head(sources)), Tail(sources))

MergeFields(sources) ==
    LET st == SourcesLoop([error |-> NoError, md |-> NewAccumulator], sources)
    IN  IF st.error # NoError THEN Raised(st.error, st.md)
        ELSE Returned(SortByDateDesc(Values(st.md)), st.md)

---------------------------------------------------------------------------
(* The datasets of main(), in program order: the file each is saved to, how  *)
(* it is produced, and the endpoints fetched for it, in fetch order.         *)

IndicatorNames == <<"sma", "ema", "wma", "dema", "tema", "rsi", "williams", "adx">>

Dataset(file, kind, endpoints) == [file |-> file, kind |-> kind, endpoints |-> endpoints]

Datasets ==
    << Dataset("stock_list.json", "raw", <<"stock/list">>),
       Dataset("symbols.json", "symbols", <<>>),
       Dataset("AAPL_price_target_news.json", "raw", <<"price-target-news">>),
       Dataset("AAPL_historical_grades.json", "raw", <<"grades-historical">>),
       Dataset("AAPL_dividends.json", "raw", <<"dividends">>),
       Dataset("AAPL_dcf_analysis.json", "raw", <<"custom-discounted-cash-flow">>),
       Dataset("AAPL_employee_count.json", "raw", <<"historical-employee-count">>),
       Dataset("AAPL_shares_float.json", "raw", <<"shares-float">>),
       Dataset("AAPL_historical_market_cap.json", "raw", <<"historical-market-capitalization">>),
       Dataset("AAPL_fundamental_data.json", "fundamental",
               <<"income-statement", "balance-sheet-statement", "cash-flow-statement">>),
       Dataset("AAPL_owner_earnings.json", "raw", <<"owner-earnings">>),
       Dataset("AAPL_enterprise_values.json", "raw", <<"enterprise-values">>),
       Dataset("AAPL_financial_growth.json", "growth", <<"financial-growth">>),
       Dataset("AAPL_as_reported_financial_statements.json", "as_reported",
               <<"financial-statement-full-as-reported">>),
       Dataset("AAPL_technical_indicators.json", "indicators", IndicatorNames) >>

Kind == Datasets[dataset].kind

RECURSIVE EndpointsThrough(_)
EndpointsThrough(n) ==
    IF n = 0 THEN <<>> ELSE EndpointsThrough(n - 1) \o Datasets[n].endpoints

FilesThrough(n) == [i \in 1..n |-> Datasets[i].file]

\* get_all_technical_indicators: the dict of the responses under the
\* indicator names, as its items in insertion order
get_all_technical_indicators(fetched) ==
    [i \in 1..Len(fetched) |-> <<IndicatorNames[i], fetched[i]>>]

\* extract_symbols
extract_symbols(stock_data) ==
    IF \E i \in 1..Len(stock_data) : "symbol" \notin DOMAIN stock_data[i]
    THEN Raised(KeyError, merged_data)
    ELSE Returned([i \in 1..Len(stock_data) |-> stock_data[i]["symbol"]], merged_data)

---------------------------------------------------------------------------
(* The module-level code, lines 9-14. *)

\* load_dotenv(): a variable of the .env file is put in the environment
\* unless the environment already sets it
load_dotenv(environ, file) == IF environ = Unset /\ file # Unset THEN file ELSE environ

\* os.getenv
getenv(environ) == IF environ = Unset THEN Null ELSE environ

\* not FMP_API_KEY
\* (variant: is None, which lets an empty value through)
CredentialMissing_none_only(key) == key = Null
CredentialMissing(key) == key \in {Null, ""}

\* an exception nothing catches ends the process
\* (variant: the exception is swallowed and the step taken again)
Propagate_swallowed(e) == phase' = phase /\ error' = error
Propagate(e) == phase' = "failed" /\ error' = e

ModuleLoad ==
    /\ phase = "load"
    /\ LET key == getenv(load_dotenv(os_environ, dotenv_file)) IN
        /\ FMP_API_KEY' = key
        /\ IF CredentialMissing(key)
           THEN Propagate(ValueError)
           ELSE phase' = "fetch" /\ error' = error
    /\ UNCHANGED <<os_environ, dotenv_file, dataset, responses, requests, result,
                   merged_data, saved, other, runs, first_result>>

---------------------------------------------------------------------------
(* The records the model draws its inputs from.  A shape is a date (0 for a  *)
(* record without one) and a variant.                                        *)

Variants == {"A", "B", "C"}
Shapes == ((1..MaxDate) \X Variants) \cup {<<0, "A">>}

\* a data point of indicator `name`: A has only close and the indicator, B
\* the whole price bar and the indicator, C the whole price bar alone
IndicatorRecord(name, shape) ==
    LET d == shape[1]
        v == shape[2]
        dom == (IF d > 0 THEN {"date"} ELSE {})
               \cup (IF v = "A" THEN {"close", name}
                     ELSE IF v = "B" THEN BaselineFields \cup {name}
                     ELSE BaselineFields)
    IN  [f \in dom |->
            IF f = "date" THEN d
            ELSE IF f = name THEN (IF v = "A" THEN "v1" ELSE "v2")
            ELSE (IF v = "B" THEN "p2" ELSE "p1")]

\* a statement period: the sources share the field symbol
StatementRecord(shape) ==
    LET d == shape[1]
        v == shape[2]
        dom == (IF d > 0 THEN {"date"} ELSE {})
               \cup (IF v = "A" THEN {"symbol", "revenue"}
                     ELSE IF v = "B" THEN {"symbol", "assets"}
                     ELSE {"revenue"})
    IN  [f \in dom |->
            IF f = "date" THEN d
            ELSE IF v = "A" THEN "x1" ELSE "x2"]

MergeKinds == {"fundamental", "growth", "as_reported", "indicators"}

\* how many responses an input of dataset n holds in the model
NumSources(n) ==
    IF Datasets[n].kind = "indicators" THEN NumCategories
    ELSE Len(Datasets[n].endpoints)

Monotone(t) == \A i \in DOMAIN t : \A j \in DOMAIN t : i < j => t[i] <= t[j]

RECURSIVE Pick(_, _, _, _, _)
Pick(n, t, s, c, i) ==
    IF i > Len(s) THEN <<>>
    ELSE (IF t[i] = c
          THEN << IF Datasets[n].kind = "indicators"
                  THEN IndicatorRecord(IndicatorNames[c], s[i])
                  ELSE StatementRecord(s[i]) >>
          ELSE <<>>) \o Pick(n, t, s, c, i + 1)

\* the responses of dataset n made of the shapes s, the i-th in response t[i]
Build(n, t, s) == [c \in 1..NumSources(n) |-> Pick(n, t, s, c, 1)]

\* the responses a fetch of main() may return in the model of the whole run
MainResponses(n, endpoint) ==
    IF Datasets[n].kind = "raw"
    THEN IF n = 1 THEN { <<[symbol |-> "AAPL"]>>, <<[symbol |-> "AAPL"], [name |-> "x1"]>> }
         ELSE { <<>> }
    ELSE IF Datasets[n].kind = "indicators"
    THEN { <<IndicatorRecord(endpoint, <<1, "B">>)>>,
           <<IndicatorRecord(endpoint, <<1, "A">>), IndicatorRecord(endpoint, <<0, "A">>)>> }
    ELSE { <<StatementRecord(<<1, "A">>)>>,
           <<StatementRecord(<<0, "A">>), StatementRecord(<<1, "B">>)>> }

---------------------------------------------------------------------------
(* The steps of main(). *)

Endpoint == Datasets[dataset].endpoints[Len(responses) + 1]

\* get_jsonparsed_data, called by the get_* function of the next endpoint
get_jsonparsed_data ==
    /\ phase = "fetch"
    /\ requests' = Append(requests, Endpoint)
    /\ \/ \E r \in MainResponses(dataset, Endpoint) :
            /\ responses' = Append(responses, r)
            /\ IF Len(responses) + 1 < Len(Datasets[dataset].endpoints)
               THEN phase' = "fetch" /\ result' = result
               ELSE IF Kind = "raw"
               THEN phase' = "save" /\ result' = r
               ELSE phase' = "merge" /\ result' = result
            /\ error' = error
       \/ /\ Propagate(HTTPError)
          /\ UNCHANGED <<responses, result>>
    /\ UNCHANGED <<os_environ, dotenv_file, FMP_API_KEY, dataset, merged_data,
                   saved, other, runs, first_result>>

\* a call that returns or raises, in the dataset's merge step
Finish(outcome, fetched) ==
    /\ merged_data' = outcome.md
    /\ responses' = fetched
    /\ IF outcome.error # NoError
       THEN Propagate(outcome.error) /\ result' = result
       ELSE phase' = "save" /\ result' = outcome.value /\ error' = error
    /\ UNCHANGED <<os_environ, dotenv_file, FMP_API_KEY, dataset, requests,
                   saved, other, runs, first_result>>

Symbols ==
    /\ phase = "merge" /\ Kind = "symbols"
    /\ Finish(extract_symbols(responses[1]), responses)

MergeIndicators ==
    /\ phase = "merge" /\ Kind = "indicators"
    /\ Finish(merge_indicators_by_date(get_all_technical_indicators(responses)), responses)

merge_quarterly_fundamental_data ==
    /\ phase = "merge" /\ Kind = "fundamental"
    /\ Finish(MergeFields(responses), responses)

\* the list is sorted in place: the fetched list and the result are one object
SortInPlace(outcome) ==
    Finish(outcome, IF outcome.error = NoError THEN <<outcome.value>> ELSE responses)

merge_financial_growth_data ==
    /\ phase = "merge" /\ Kind = "growth"
    /\ SortInPlace(SortCall(responses[1]))

merge_as_reported_financial_data ==
    /\ phase = "merge" /\ Kind = "as_reported"
    /\ SortInPlace(SortCall(responses[1]))

\* save_to_json, then main() goes on to the next dataset; the file system is
\* taken to accept every write
save_to_json ==
    /\ phase = "save"
    /\ saved' = Append(saved, Datasets[dataset].file)
    /\ IF dataset = Len(Datasets)
       THEN phase' = "done" /\ UNCHANGED <<dataset, responses>>
       ELSE /\ dataset' = dataset + 1
            /\ IF Datasets[dataset + 1].kind = "symbols"
               THEN phase' = "merge" /\ responses' = responses
               ELSE phase' = "fetch" /\ responses' = <<>>
    /\ UNCHANGED <<os_environ, dotenv_file, FMP_API_KEY, requests, result, error,
                   merged_data, other, runs, first_result>>

Merges ==
    \/ MergeIndicators
    \/ merge_quarterly_fundamental_data
    \/ merge_financial_growth_data
    \/ merge_as_reported_financial_data

---------------------------------------------------------------------------
(* Spec: one merged dataset of main(), from the moment its responses are in, *)
(* over every input within the bounds.                                       *)

MergeDatasets == {n \in 1..Len(Datasets) : Datasets[n].kind \in MergeKinds}

\* responses is an input of dataset n of at most max records
IsInput(n, max) ==
    \E k \in 0..max :
        \E t \in [1..k -> 1..NumSources(n)] :
            /\ Monotone(t)
            /\ \E s \in [1..k -> Shapes] : responses = Build(n, t, s)

Init ==
    /\ os_environ = "key" /\ dotenv_file = Unset /\ FMP_API_KEY = "key"
    /\ dataset \in MergeDatasets
    /\ phase = "merge"
    /\ IsInput(dataset, MaxRecords)
    /\ requests = EndpointsThrough(dataset)
    /\ saved = FilesThrough(dataset - 1)
    /\ result = NoResult
    /\ error = NoError
    /\ merged_data = EmptyDefaultDict
    /\ other = <<>> /\ runs = 0 /\ first_result = NoResult

Next == Merges \/ save_to_json

Spec == Init /\ [][Next]_vars

---------------------------------------------------------------------------
(* SpecMain: the whole process, from its start to the last file.             *)

InitMain ==
    /\ os_environ \in {Unset, "", "key"}
    /\ dotenv_file \in {Unset, "", "key"}
    /\ FMP_API_KEY = NotLoaded
    /\ dataset = 1
    /\ phase = "load"
    /\ responses = <<>>
    /\ requests = <<>>
    /\ saved = <<>>
    /\ result = NoResult
    /\ error = NoError
    /\ merged_data = EmptyDefaultDict
    /\ other = <<>> /\ runs = 0 /\ first_result = NoResult

NextMain == ModuleLoad \/ get_jsonparsed_data \/ Symbols \/ Merges \/ save_to_json

SpecMain == InitMain /\ [][NextMain]_vars

---------------------------------------------------------------------------
(* SpecRerun: a merge invoked on an input, then on another, then on the      *)
(* first again, in one process.                                              *)

RerunDatasets == {n \in MergeDatasets : Datasets[n].kind \in {"fundamental", "indicators"}}

\* the two inputs: at most MaxRerunRecords records, each put in a source of
\* responses (t[i] <= m) or of other (t[i] > m)
InitRerun ==
    /\ os_environ = "key" /\ dotenv_file = Unset /\ FMP_API_KEY = "key"
    /\ dataset \in RerunDatasets
    /\ phase = "merge"
    /\ \E k \in 0..MaxRerunRecords :
         \E t \in [1..k -> 1..(2 * NumSources(dataset))] :
           /\ Monotone(t)
           /\ \E s \in [1..k -> Shapes] :
              LET m == NumSources(dataset)
                  shift == [i \in 1..k |-> IF t[i] > m THEN t[i] - m ELSE m + 1]
                  keep  == [i \in 1..k |-> IF t[i] > m THEN m + 1 ELSE t[i]]
              IN  /\ responses = [c \in 1..m |-> Pick(dataset, keep, s, c, 1)]
                  /\ other = [c \in 1..m |-> Pick(dataset, shift, s, c, 1)]
    /\ requests = EndpointsThrough(dataset)
    /\ saved = FilesThrough(dataset - 1)
    /\ result = NoResult
    /\ error = NoError
    /\ merged_data = EmptyDefaultDict
    /\ runs = 0 /\ first_result = NoResult

\* the caller invokes the merge again, on the other input
Reinvoke ==
    /\ phase = "save"
    /\ runs < 2
    /\ runs' = runs + 1
    /\ first_result' = IF runs = 0 THEN result ELSE first_result
    /\ responses' = other
    /\ other' = responses
    /\ phase' = "merge"
    /\ UNCHANGED <<os_environ, dotenv_file, FMP_API_KEY, dataset, requests, result,
                   error, merged_data, saved>>

NextRerun == MergeIndicators \/ merge_quarterly_fundamental_data \/ Reinvoke

SpecRerun == InitRerun /\ [][NextRerun]_vars

---------------------------------------------------------------------------
(* What the claims speak of: the records of the input in processing order   *)
(* (sources in the given order, records in input order within a source).    *)

RECURSIVE Flatten(_, _)
Flatten(fetched, c) ==
    IF c > Len(fetched) THEN <<>>
    ELSE [i \in 1..Len(fetched[c]) |-> [cat |-> c, rec |-> fetched[c][i]]]
         \o Flatten(fetched, c + 1)

Processed == Flatten(responses, 1)

DateAt(i) == Processed[i].rec["date"]

InputDates == {DateAt(i) : i \in DOMAIN Processed}

\* the records of the result that carry date d
Rows(d) == {i \in DOMAIN result : result[i]["date"] = d}

Merged(kinds) == phase = "save" /\ Kind \in kinds

Undated == \E i \in DOMAIN Processed : ~HasDate(Processed[i].rec)

\* how often record r occurs in list
Count(list, r) == Cardinality({i \in DOMAIN list : list[i] = r})

---------------------------------------------------------------------------
(* The claims. *)

\* C1: the output of merge_indicators_by_date and of the merge loop of
\* merge_quarterly_fundamental_data holds exactly one record per distinct date
\* of the input: as many records as distinct dates, every input date present,
\* no date in two records.
C1_OneRecordPerDate ==
    Merged({"indicators", "fundamental"}) =>
        /\ Len(result) = Cardinality(InputDates)
        /\ \A d \in InputDates : Cardinality(Rows(d)) = 1
        /\ \A i \in DOMAIN result : result[i]["date"] \in InputDates

\* a date repeated inside one category and again in another one
C1_Witness ==
    /\ Merged({"indicators"})
    /\ \E i, j, k \in DOMAIN Processed :
          /\ i < j /\ j < k
          /\ DateAt(i) = DateAt(j) /\ DateAt(j) = DateAt(k)
          /\ Processed[i].cat = Processed[j].cat
          /\ Processed[j].cat # Processed[k].cat

\* C2: the output of both merges is sorted strictly by date descending: of two
\* adjacent records the earlier has the strictly greater date.
C2_StrictlyDescending ==
    Merged({"indicators", "fundamental"}) =>
        \A i \in 1..(Len(result) - 1) : result[i]["date"] > result[i + 1]["date"]

\* the dates were met in ascending order, so the sort had to reverse them
C2_Witness ==
    /\ Merged({"fundamental"})
    /\ Len(result) >= 2
    /\ Len(Processed) >= 2
    /\ DateAt(1) < DateAt(2)

\* C3: for every category C and date d in a record of C, the merged record for
\* d has a field C whose value is that of field C in the last record of C for
\* d, null when that record has no field C.
C3_IndicatorLastWriter ==
    Merged({"indicators"}) =>
        \A i \in DOMAIN Processed :
            LET C == IndicatorNames[Processed[i].cat]
                same == {j \in DOMAIN Processed :
                            Processed[j].cat = Processed[i].cat /\ DateAt(j) = DateAt(i)}
                last == CHOOSE j \in same : \A m \in same : m <= j
            IN  /\ Rows(DateAt(i)) # {}
                /\ \A r \in Rows(DateAt(i)) :
                      /\ C \in DOMAIN result[r]
                      /\ result[r][C] = Get(Processed[last].rec, C)

\* one category holds two records for a date, with a value and then without
C3_Witness ==
    /\ Merged({"indicators"})
    /\ \E i, j \in DOMAIN Processed :
          /\ i < j
          /\ Processed[i].cat = Processed[j].cat
          /\ DateAt(i) = DateAt(j)
          /\ IndicatorNames[Processed[i].cat] \in DOMAIN Processed[i].rec
          /\ IndicatorNames[Processed[j].cat] \notin DOMAIN Processed[j].rec

\* C4: the merged record of merge_quarterly_fundamental_data for a date d is
\* the shallow union of the source records of date d in processing order: it
\* has exactly their fields, each with the value of the record processed last
\* among those that have the field.
C4_ShallowUnion ==
    Merged({"fundamental"}) =>
        \A d \in InputDates :
            LET of == {i \in DOMAIN Processed : DateAt(i) = d}
            IN  /\ Rows(d) # {}
                /\ \A r \in Rows(d) :
                      /\ DOMAIN result[r] = UNION {DOMAIN Processed[i].rec : i \in of}
                      /\ \A f \in DOMAIN result[r] :
                            LET have == {i \in of : f \in DOMAIN Processed[i].rec}
                                last == CHOOSE i \in have : \A m \in have : m <= i
                            IN  result[r][f] = Processed[last].rec[f]

\* two sources give the same field different values for one date
C4_Witness ==
    /\ Merged({"fundamental"})
    /\ \E i, j \in DOMAIN Processed :
          /\ Processed[i].cat < Processed[j].cat
          /\ DateAt(i) = DateAt(j)
          /\ \E f \in (DOMAIN Processed[i].rec \cap DOMAIN Processed[j].rec) \ {"date"} :
                Processed[i].rec[f] # Processed[j].rec[f]
          /\ DOMAIN Processed[i].rec # DOMAIN Processed[j].rec

\* C5: in merge_indicators_by_date the fields date, open, high, low, close and
\* volume of the merged record for d are those of the first record processed
\* for d, null for a field it lacks; no later record changes them.
C5_BaselineFromFirst ==
    Merged({"indicators"}) =>
        \A d \in InputDates :
            LET of == {i \in DOMAIN Processed : DateAt(i) = d}
                first == CHOOSE i \in of : \A m \in of : i <= m
            IN  /\ Rows(d) # {}
                /\ \A r \in Rows(d) : \A f \in BaselineFields \cup {"date"} :
                      /\ f \in DOMAIN result[r]
                      /\ result[r][f] = Get(Processed[first].rec, f)

\* the first record for a date lacks open and a later one, of another
\* category, carries another close
C5_Witness ==
    /\ Merged({"indicators"})
    /\ \E i, j \in DOMAIN Processed :
          /\ i < j
          /\ (\A m \in DOMAIN Processed : DateAt(m) = DateAt(i) => i <= m)
          /\ Processed[i].cat # Processed[j].cat
          /\ DateAt(i) = DateAt(j)
          /\ "open" \notin DOMAIN Processed[i].rec
          /\ "open" \in DOMAIN Processed[j].rec
          /\ Get(Processed[i].rec, "close") # Get(Processed[j].rec, "close")

\* C6: an input record without a date, wherever it stands, makes the operation
\* (both merges and the sort) fail with KeyError and return nothing, and the
\* dataset's file is never written.
C6_MissingDateFails ==
    (Kind \in MergeKinds /\ phase \notin {"fetch", "merge"} /\ Undated) =>
        /\ phase = "failed"
        /\ error = KeyError
        /\ result = NoResult
        /\ \A i \in DOMAIN saved : saved[i] # Datasets[dataset].file

\* the record without a date is the last one processed, behind two good ones
C6_Witness ==
    /\ phase = "failed"
    /\ Kind = "indicators"
    /\ Len(Processed) = 3
    /\ HasDate(Processed[1].rec) /\ HasDate(Processed[2].rec)
    /\ ~HasDate(Processed[3].rec)
    /\ Processed[1].cat # Processed[3].cat

\* C7: merge_financial_growth_data and merge_as_reported_financial_data return
\* a permutation of the fetched list ordered by date non-increasing: the same
\* length, every record as often as in the input, records of equal date kept
\* apart.
C7_SortedPermutation ==
    [][ (phase = "merge" /\ Kind \in {"growth", "as_reported"} /\ phase' = "save") =>
            /\ Len(result') = Len(responses[1])
            /\ \A i \in DOMAIN responses[1] :
                  Count(result', responses[1][i]) = Count(responses[1], responses[1][i])
            /\ \A i \in 1..(Len(result') - 1) :
                  result'[i]["date"] >= result'[i + 1]["date"]
      ]_vars

\* two different records of one date both came out, behind a later date that
\* the input listed last
C7_Witness ==
    /\ Merged({"growth"})
    /\ Len(result) = 3
    /\ result[1]["date"] > result[2]["date"]
    /\ result[2]["date"] = result[3]["date"]
    /\ result[2] # result[3]

\* C8, as stated: with FMP_API_KEY absent from the environment at process
\* start the process aborts with a configuration error before any request and
\* any file.
C8_AbsentFromEnvironmentAborts ==
    os_environ = Unset =>
        /\ phase \in {"load", "failed"}
        /\ phase = "failed" => error = ValueError
        /\ requests = <<>>
        /\ saved = <<>>

\* C8, amended: with FMP_API_KEY empty in the environment, or absent from it
\* and absent from or empty in the .env file, the process aborts with
\* ValueError before any request and any file; and no request is ever issued
\* while the credential is unset.
C8_NoCredentialAborts ==
    /\ (os_environ = "" \/ (os_environ = Unset /\ dotenv_file \in {Unset, ""})) =>
          /\ phase \in {"load", "failed"}
          /\ phase = "failed" => error = ValueError
          /\ requests = <<>>
          /\ saved = <<>>
    /\ (requests # <<>> \/ saved # <<>>) => FMP_API_KEY = "key"

\* the process aborted on an empty credential that no .env file replaces
C8_Witness ==
    /\ phase = "failed"
    /\ error = ValueError
    /\ os_environ = ""
    /\ dotenv_file = "key"
    /\ requests = <<>>

\* C9: a merge invoked again on the input of an earlier invocation returns
\* what that invocation returned, whatever was merged in between: nothing of
\* one invocation's accumulator reaches the next.
C9_RerunSameOutput ==
    (phase = "save" /\ (runs = 2 \/ (runs = 1 /\ responses = other))) =>
        result = first_result

\* the third invocation repeats the first after a second one, on other dates
C9_Witness ==
    /\ phase = "save"
    /\ runs = 2
    /\ Len(result) = 1
    /\ Len(Flatten(other, 1)) = 1
    /\ Flatten(other, 1)[1].rec["date"] # result[1]["date"]

\* what C10 says of every state: the files and the requests are prefixes of
\* the program's order, no request twice, and a dataset is fetched only once
\* the one before it is saved
C10_State ==
    /\ Len(saved) <= Len(Datasets)
    /\ saved = FilesThrough(Len(saved))
    /\ Len(requests) <= Len(EndpointsThrough(Len(Datasets)))
    /\ requests = SubSeq(EndpointsThrough(Len(Datasets)), 1, Len(requests))
    /\ \A i, j \in DOMAIN requests : i # j => requests[i] # requests[j]
    /\ phase # "done" => Len(saved) = dataset - 1
    /\ phase = "done" => Len(saved) = Len(Datasets)
    /\ Len(saved) < Len(Datasets) =>
          /\ Len(requests) >= Len(EndpointsThrough(Len(saved)))
          /\ Len(requests) <= Len(EndpointsThrough(Len(saved) + 1))
    /\ phase = "save" => Len(requests) = Len(EndpointsThrough(dataset))

\* C10: main() works through the datasets one after another (fetch, merge,
\* save), issues each request at most once, and stops at the first failure:
\* the failing dataset is not saved, the datasets before it are, and nothing
\* is fetched or saved afterwards.
C10_SequentialFailFast ==
    /\ []C10_State
    /\ [][phase = "failed" => (requests' = requests /\ saved' = saved /\ phase' = "failed")]_vars

\* the second statement request failed: nine files are written, the tenth is not
C10_Witness ==
    /\ phase = "failed"
    /\ error = HTTPError
    /\ Kind = "fundamental"
    /\ Len(responses) = 1
    /\ Len(saved) = dataset - 1
    /\ Len(saved) > 0

=============================================================================
